---- MODULE Spec2Model ----
(***************************************************************************)
(* Model of ios/fix-googlesignin-package.py: the locator                   *)
(* (find_package_file), the rewriter (fix_package_swift) and main.         *)
(*                                                                         *)
(* A text (what the script reads into content) is a sequence of            *)
(* characters. A character is a string of one character when it is a       *)
(* printable ASCII character (but the grave accent, which a string cannot  *)
(* hold) or one of \t, \n, \f, \r, and the name of its code point          *)
(* otherwise, such as "U+00E9" or "U+2028". The content of a               *)
(* file is a sequence of bytes (0..255): the script reads and writes in    *)
(* text mode, so what it reads is decoded from UTF-8 and what it writes is *)
(* encoded, while sizes and offsets in the file count bytes. The           *)
(* regular-expression and str.replace substitutions are computed on the    *)
(* characters as re.sub and str.replace compute them: leftmost match       *)
(* first, non-overlapping, the scan resuming after each match.             *)
(***************************************************************************)
EXTENDS Integers, Sequences, FiniteSets, TLC

(***************************************************************************)
(* Text primitives                                                         *)
(***************************************************************************)

\* The text whose characters are those of the string s.
Text(s) == [k \in 1..Len(s) |-> SubSeq(s, k, k)]

\* The empty text.
Empty == << >>

\* Characters the pattern class \s accepts on str (those c for which
\* c.isspace() holds): space, \t, \n, \r, \f, the vertical tab, the
\* separators U+001C - U+001F, U+0085, U+00A0, U+1680 and the spaces and
\* separators from U+2000 on.
WhitespaceChars ==
    {" ", "\t", "\n", "\r", "\f", "U+000B", "U+001C", "U+001D", "U+001E",
     "U+001F", "U+0085", "U+00A0", "U+1680",
     "U+2000", "U+2001", "U+2002", "U+2003", "U+2004", "U+2005", "U+2006",
     "U+2007", "U+2008", "U+2009", "U+200A", "U+2028", "U+2029", "U+202F",
     "U+205F", "U+3000"}

\* The character at index i of c ("" when there is none).
CharAt(c, i) == IF i \in 1..Len(c) THEN c[i] ELSE ""

\* c[i..] starts with the text lit.
StartsWithAt(c, i, lit) ==
    /\ i >= 1
    /\ i + Len(lit) - 1 <= Len(c)
    /\ SubSeq(c, i, i + Len(lit) - 1) = lit

\* The text before index i, and the text from index i on.
Before(c, i) == SubSeq(c, 1, i - 1)
From(c, i) == SubSeq(c, i, Len(c))

\* The least element of a non-empty set of indices.
MinOf(S) == CHOOSE m \in S : \A n \in S : m <= n

\* SkipSpaces for a pattern written with \s? in place of \s*.
SkipSpacesAtMostOne(c, i) == IF CharAt(c, i) \in WhitespaceChars THEN i + 1 ELSE i

\* \s* is greedy: the first index >= i whose character is not whitespace
\* (Len(c) + 1 when there is none).
SkipSpaces(c, i) ==
    LET stops == { j \in i..Len(c) : CharAt(c, j) \notin WhitespaceChars }
    IN  IF stops = {} THEN Len(c) + 1 ELSE MinOf(stops)

Quote == "\""

\* [^"]+ is greedy: the first index >= i whose character is a double quote
\* (Len(c) + 1 when there is none).
SkipNonQuotes(c, i) ==
    LET stops == { j \in i..Len(c) : CharAt(c, j) = Quote }
    IN  IF stops = {} THEN Len(c) + 1 ELSE MinOf(stops)

(***************************************************************************)
(* Declaration rules: re.sub(r'\.package\(\s*name: "N",\s*url:',           *)
(*                           '.package(url:', content)                     *)
(***************************************************************************)

DeclOpen == Text(".package(")
DeclNameOpen == Text("name: \"")
DeclNameClose == Text("\",")
DeclNameArg(N) == DeclNameOpen \o N \o DeclNameClose
DeclUrl == Text("url:")
DeclReplacement == Text(".package(url:")

\* The index just after the match of the pattern for N that starts at i,
\* or 0 when the pattern does not match at i.
MatchDeclaration(c, i, N) ==
    IF ~StartsWithAt(c, i, DeclOpen) THEN 0
    ELSE LET b == SkipSpaces(c, i + Len(DeclOpen))
         IN  IF ~StartsWithAt(c, b, DeclNameArg(N)) THEN 0
             ELSE LET e == SkipSpaces(c, b + Len(DeclNameArg(N)))
                  IN  IF StartsWithAt(c, e, DeclUrl) THEN e + Len(DeclUrl) ELSE 0

\* re.sub scans left to right: the text up to the leftmost match at or
\* after i is copied, the match is replaced, and the scan resumes after it.
RECURSIVE SubDeclarationFrom(_, _, _)
SubDeclarationFrom(c, i, N) ==
    LET starts == { j \in i..Len(c) : MatchDeclaration(c, j, N) > 0 }
    IN  IF starts = {} THEN SubSeq(c, i, Len(c))
        ELSE LET m == MinOf(starts)
             IN  SubSeq(c, i, m - 1) \o DeclReplacement
                     \o SubDeclarationFrom(c, MatchDeclaration(c, m, N), N)

SubDeclaration(c, N) == SubDeclarationFrom(c, 1, N)

\* The six names, in the order of the six re.sub calls.
DeclNames ==
    << Text("AppAuth"), Text("AppCheck"), Text("GTMAppAuth"),
       Text("GTMSessionFetcher"), Text("GoogleUtilities"), Text("OCMock") >>

RECURSIVE FixDeclarationsFrom(_, _)
FixDeclarationsFrom(c, k) ==
    IF k > Len(DeclNames) THEN c
    ELSE FixDeclarationsFrom(SubDeclaration(c, DeclNames[k]), k + 1)

FixDeclarations(c) == FixDeclarationsFrom(c, 1)

(***************************************************************************)
(* Revision rule: re.sub(r'\.revision\("([^"]+)"\)', r'revision: "\1"', c) *)
(***************************************************************************)

RevOpen == Text(".revision(\"")
RevClose == Text("\")")

\* The index just after the match that starts at i, or 0. The group is
\* c[i + Len(RevOpen) .. q - 1] where q is the next double quote; it must
\* not be empty, and the quote must be followed by ")".
MatchRevision(c, i) ==
    IF ~StartsWithAt(c, i, RevOpen) THEN 0
    ELSE LET g == i + Len(RevOpen)
             q == SkipNonQuotes(c, g)
         IN  IF q > g /\ StartsWithAt(c, q, RevClose) THEN q + Len(RevClose) ELSE 0

\* The text of group 1 of the match that starts at i and ends before e.
RevisionGroup(c, i, e) == SubSeq(c, i + Len(RevOpen), e - Len(RevClose) - 1)

\* The replacement template r'revision: "\1"'.
RevisionNewOpen == Text("revision: \"")
RevisionReplacement(g) == RevisionNewOpen \o g \o << Quote >>

RECURSIVE FixRevisionFrom(_, _)
FixRevisionFrom(c, i) ==
    LET starts == { j \in i..Len(c) : MatchRevision(c, j) > 0 }
    IN  IF starts = {} THEN SubSeq(c, i, Len(c))
        ELSE LET m == MinOf(starts)
                 e == MatchRevision(c, m)
             IN  SubSeq(c, i, m - 1) \o RevisionReplacement(RevisionGroup(c, m, e))
                     \o FixRevisionFrom(c, e)

\* FixRevision with re.sub(..., count=1): only the leftmost match.
FixRevisionFirstOnly(c) ==
    LET starts == { j \in 1..Len(c) : MatchRevision(c, j) > 0 }
    IN  IF starts = {} THEN c
        ELSE LET m == MinOf(starts)
                 e == MatchRevision(c, m)
             IN  Before(c, m) \o RevisionReplacement(RevisionGroup(c, m, e)) \o From(c, e)

FixRevision(c) == FixRevisionFrom(c, 1)

(***************************************************************************)
(* Reference renames: content.replace('package: "old"', 'package: "new"')  *)
(***************************************************************************)

\* str.replace: every non-overlapping occurrence, leftmost first.
RECURSIVE StrReplaceFrom(_, _, _, _)
StrReplaceFrom(c, i, old, new) ==
    LET starts == { j \in i..Len(c) : StartsWithAt(c, j, old) }
    IN  IF starts = {} THEN SubSeq(c, i, Len(c))
        ELSE LET m == MinOf(starts)
             IN  SubSeq(c, i, m - 1) \o new \o StrReplaceFrom(c, m + Len(old), old, new)

\* StrReplace with replace(old, new, 1): only the leftmost occurrence.
StrReplaceFirst(c, old, new) ==
    LET starts == { j \in 1..Len(c) : StartsWithAt(c, j, old) }
    IN  IF starts = {} THEN c
        ELSE LET m == MinOf(starts)
             IN  Before(c, m) \o new \o From(c, m + Len(old))

StrReplace(c, old, new) == StrReplaceFrom(c, 1, old, new)

PackageRefOpen == Text("package: \"")
PackageRef(id) == PackageRefOpen \o id \o << Quote >>

\* The five (old, new) pairs, in the order of the five replace calls.
Renames ==
    << << Text("AppAuth"), Text("appauth-ios") >>,
       << Text("AppCheck"), Text("app-check") >>,
       << Text("GTMAppAuth"), Text("gtmappauth") >>,
       << Text("GTMSessionFetcher"), Text("gtm-session-fetcher") >>,
       << Text("GoogleUtilities"), Text("googleutilities") >> >>

RECURSIVE FixReferencesFrom(_, _)
FixReferencesFrom(c, k) ==
    IF k > Len(Renames) THEN c
    ELSE FixReferencesFrom(
             StrReplace(c, PackageRef(Renames[k][1]), PackageRef(Renames[k][2])),
             k + 1)

FixReferences(c) == FixReferencesFrom(c, 1)

(***************************************************************************)
(* The whole ordered substitution sequence of fix_package_swift.           *)
(***************************************************************************)

\* Transform with the renames moved in front of the other rules.
TransformRenamesFirst(c) == FixRevision(FixDeclarations(FixReferences(c)))

Transform(c) == FixReferences(FixRevision(FixDeclarations(c)))

(***************************************************************************)
(* Input texts. A buffer is a context, a focus and a context; the foci are *)
(* declarations, revision pins and package references.                     *)
(***************************************************************************)

\* Longest run of whitespace generated after "(" and after the comma of a
\* declaration.
MaxWs == 2

WsAlphabet == {" ", "\n"}

\* The runs of at most n characters of WsAlphabet.
RECURSIVE WsRuns(_)
WsRuns(n) ==
    IF n = 0 THEN { Empty }
    ELSE LET shorter == WsRuns(n - 1)
         IN  shorter \cup { Append(w, a) : w \in shorter, a \in WsAlphabet }

Space == << " " >>
Newline == << "\n" >>

\* The runs after "(" and after the comma: the same run at both places, or
\* any run at one place and a space at the other.
WsPairs ==
    { << w, w >> : w \in WsRuns(MaxWs) }
    \cup { << w, Space >> : w \in WsRuns(MaxWs) }
    \cup { << Space, w >> : w \in WsRuns(MaxWs) }

DeclNameSet == { DeclNames[k] : k \in 1..Len(DeclNames) }
OldIds == { Renames[k][1] : k \in 1..Len(Renames) }

\* Names and identifiers that no rule targets; the last two names are not
\* identifiers.
OtherNames == { Text("Promises"), Text("AppAuth2"), Text(")x"), Text(".revision(") }
OtherIds == { Text("OCMock"), Text("Promises"), Text("appauth-ios") }

\* A declaration with whitespace w1 after "(", wn after "name:", wc before
\* the comma and w2 after the comma.
Declaration(N, w1, wn, wc, w2) ==
    DeclOpen \o w1 \o Text("name:") \o wn \o << Quote >> \o N \o << Quote >>
        \o wc \o Text(",") \o w2 \o DeclUrl

DeclTail == Text(" \"https://x\")")

\* A run of several kinds of whitespace: a newline, an indentation and
\* characters outside ASCII.
MixedRun == << "\n", " ", "\t", "U+00A0", "U+2028", "U+3000" >>

DeclForms ==
    { Declaration(N, v[1], Space, Empty, v[2]) :
        N \in { Text("AppAuth"), Text("GTMSessionFetcher"), Text("Promises") },
        v \in WsPairs }
    \cup
    { Declaration(N, Space, v[1], v[2], Space) :
        N \in DeclNameSet \cup OtherNames,
        v \in { << Space, Empty >>, << Empty, Empty >>, << Text("  "), Empty >>,
                << Newline, Empty >>, << Space, Space >>, << Space, Newline >> } }
    \cup
    { Declaration(N, << w >>, Space, Empty, << w >>) :
        N \in { Text("AppAuth"), Text("Promises") }, w \in WhitespaceChars \ WsAlphabet }
    \cup
    { Declaration(N, MixedRun, Space, Empty, MixedRun) :
        N \in { Text("AppCheck"), Text("Promises") } }

DeclContexts ==
    { << Empty, Empty >>,
      << Text("dependencies: [\n  "), Text(",\n]") >>,
      << Text(".revision(\"a"), Text("b\")") >> }

DeclInputs == { x[1] \o d \o DeclTail \o x[2] : d \in DeclForms, x \in DeclContexts }

RevisionPin(s) == RevOpen \o s \o RevClose

RevValues ==
    { Text("1.2.3"), Text("a\\1$&.*\n"), Text("package: "), Text(")x"), Empty,
      Text("a\"b") }

Contexts ==
    { Empty, Newline, Text(".revision(\""), Text("AppAuth\""),
      Text(".revision(\"9f3a\")"), Text("package: \"AppCheck\""),
      Text(".package(name: \"OCMock\", url:") }

RevInputs == { a \o RevisionPin(s) \o b : s \in RevValues, a \in Contexts, b \in Contexts }

RefInputs ==
    { a \o PackageRef(id) \o b : id \in OldIds \cup OtherIds, a \in Contexts, b \in Contexts }

\* Buffers that hold none of the targeted patterns.
PlainInputs ==
    { Empty, Text("// swift-tools-version:5.3\n"), Text(".package(url: \"https://x\")") }

\* Files with carriage returns: line ends, and one inside a revision value.
CrInputs ==
    { Text("// swift-tools-version:5.3\r\n// b\r"),
      Text("a\r\n.revision(\"x\")\r\n"),
      Text(".revision(\"a\rb\")"),
      Text(".package(\r\nname: \"AppCheck\",\rurl: \"https://x\")\r\n") }

AllInputs == DeclInputs \cup RevInputs \cup RefInputs \cup PlainInputs \cup CrInputs

\* A few buffers for the runs that vary the file system or race.
SmallInputs ==
    { Text("// swift-tools-version:5.3\n"),
      Text(".package(name: \"AppAuth\", url: \"https://x\")"),
      Text(".revision(\".revision(\")x\")"),
      Text("package: \"AppAuth\""),
      Text("package: \"AppAuth\" // ") \o << "U+00E9", "U+00E9", "U+00E9" >> }

(***************************************************************************)
(* The bytes of a file: open(file_path, "r") decodes them from UTF-8 and   *)
(* open(file_path, "w") encodes the text written                           *)
(***************************************************************************)

\* The printable ASCII characters that a string can hold: code points 32
\* to 126 but for the grave accent, 96.
Printable ==
    " !\"#$%&'()*+,-./0123456789:;<=>?@ABCDEFGHIJKLMNOPQRSTUVWXYZ[\\]^_abcdefghijklmnopqrstuvwxyz{|}~"

PrintableFirst == 32
GraveAccent == 96
PrintableLast == 126

HexDigits == "0123456789ABCDEF"

HexDigit(n) == SubSeq(HexDigits, n + 1, n + 1)

\* The name of code point cp: U+ and its hexadecimal digits, four at least.
CodePointName(cp) ==
    "U+" \o (IF cp >= 1048576 THEN HexDigit(cp \div 1048576) ELSE "")
         \o (IF cp >= 65536 THEN HexDigit((cp \div 65536) % 16) ELSE "")
         \o HexDigit((cp \div 4096) % 16) \o HexDigit((cp \div 256) % 16)
         \o HexDigit((cp \div 16) % 16) \o HexDigit(cp % 16)

\* The number a string of hexadecimal digits writes.
RECURSIVE HexValue(_)
HexValue(s) ==
    IF s = "" THEN 0
    ELSE (16 * HexValue(SubSeq(s, 1, Len(s) - 1)))
           + (CHOOSE n \in 0..15 : HexDigit(n) = SubSeq(s, Len(s), Len(s)))

\* The character of code point cp.
Chr(cp) ==
    CASE cp \in PrintableFirst..(GraveAccent - 1) ->
             SubSeq(Printable, cp - PrintableFirst + 1, cp - PrintableFirst + 1)
      [] cp \in (GraveAccent + 1)..PrintableLast ->
             SubSeq(Printable, cp - PrintableFirst, cp - PrintableFirst)
      [] cp = 9 -> "\t"
      [] cp = 10 -> "\n"
      [] cp = 12 -> "\f"
      [] cp = 13 -> "\r"
      [] OTHER -> CodePointName(cp)

PrintableOrd ==
    [ch \in { Chr(cp) : cp \in (PrintableFirst..PrintableLast) \ {GraveAccent} } |->
        CHOOSE cp \in PrintableFirst..PrintableLast : Chr(cp) = ch]

\* The code point of character ch.
Ord(ch) ==
    IF Len(ch) > 1 THEN HexValue(SubSeq(ch, 3, Len(ch)))
    ELSE CASE ch = "\t" -> 9
           [] ch = "\n" -> 10
           [] ch = "\f" -> 12
           [] ch = "\r" -> 13
           [] OTHER -> PrintableOrd[ch]

\* The UTF-8 bytes of code point cp.
Utf8(cp) ==
    IF cp < 128 THEN << cp >>
    ELSE IF cp < 2048 THEN << 192 + (cp \div 64), 128 + (cp % 64) >>
    ELSE IF cp < 65536
         THEN << 224 + (cp \div 4096), 128 + ((cp \div 64) % 64), 128 + (cp % 64) >>
         ELSE << 240 + (cp \div 262144), 128 + ((cp \div 4096) % 64),
                 128 + ((cp \div 64) % 64), 128 + (cp % 64) >>

\* f.write(content) on a file opened with "w": the bytes of the text t.
RECURSIVE Encode(_)
Encode(t) ==
    LET wide == { j \in 1..Len(t) : Len(t[j]) > 1 /\ Ord(t[j]) >= 128 }
    IN  IF wide = {} THEN [k \in 1..Len(t) |-> Ord(t[k])]
        ELSE LET i == MinOf(wide)
             IN  [k \in 1..(i - 1) |-> Ord(t[k])] \o Utf8(Ord(t[i]))
                     \o Encode(From(t, i + 1))

\* The number of bytes the sequence that starts with byte b0 has (0 when no
\* sequence starts with b0).
SequenceLength(b0) ==
    IF b0 < 128 THEN 1
    ELSE IF b0 \in 194..223 THEN 2
    ELSE IF b0 \in 224..239 THEN 3
    ELSE IF b0 \in 240..244 THEN 4
    ELSE 0

IsContinuation(x) == x \in 128..191

\* A well-formed sequence starts at index i of the bytes b: continuation
\* bytes follow the first, and the sequence is neither overlong, nor a
\* surrogate, nor past U+10FFFF.
WellFormedAt(b, i) ==
    LET n == SequenceLength(b[i])
    IN  /\ n > 0
        /\ i + n - 1 <= Len(b)
        /\ \A k \in 1..(n - 1) : IsContinuation(b[i + k])
        /\ b[i] = 224 => b[i + 1] >= 160
        /\ b[i] = 237 => b[i + 1] <= 159
        /\ b[i] = 240 => b[i + 1] >= 144
        /\ b[i] = 244 => b[i + 1] <= 143

\* The code point the well-formed sequence at index i of b encodes.
CodePointAt(b, i) ==
    LET n == SequenceLength(b[i])
    IN  CASE n = 1 -> b[i]
          [] n = 2 -> ((b[i] % 32) * 64) + (b[i + 1] % 64)
          [] n = 3 -> ((b[i] % 16) * 4096) + ((b[i + 1] % 64) * 64) + (b[i + 2] % 64)
          [] n = 4 -> ((b[i] % 8) * 262144) + ((b[i + 1] % 64) * 4096)
                          + ((b[i + 2] % 64) * 64) + (b[i + 3] % 64)

\* The bytes b from index i on are well-formed UTF-8; f.read() raises
\* UnicodeDecodeError when the bytes read are not.
RECURSIVE DecodableFrom(_, _)
DecodableFrom(b, i) ==
    LET high == { j \in i..Len(b) : b[j] >= 128 }
    IN  IF high = {} THEN TRUE
        ELSE LET m == MinOf(high)
             IN  WellFormedAt(b, m) /\ DecodableFrom(b, m + SequenceLength(b[m]))

Decodable(b) == DecodableFrom(b, 1)

\* The text that the well-formed bytes b from index i on decode to.
RECURSIVE DecodeFrom(_, _)
DecodeFrom(b, i) ==
    LET high == { j \in i..Len(b) : b[j] >= 128 }
    IN  IF high = {} THEN [k \in 1..(Len(b) - i + 1) |-> Chr(b[i + k - 1])]
        ELSE LET m == MinOf(high)
             IN  [k \in 1..(m - i) |-> Chr(b[i + k - 1])]
                     \o << Chr(CodePointAt(b, m)) >>
                     \o DecodeFrom(b, m + SequenceLength(b[m]))

Decode(b) == DecodeFrom(b, 1)

(***************************************************************************)
(* The file system and the runs of main()                                  *)
(***************************************************************************)

\* Candidate paths <DerivedData>/*/SourcePackages/checkouts/GoogleSignIn-iOS/Package.swift
Paths == {"DerivedData/A/Package.swift", "DerivedData/B/Package.swift"}

None == "None"

\* The outcome of a call that raises.
Raised == "Raised"

\* os.chmod(file_path, 0o644)
WritableMode == 420

\* Permission bits a checkout may have before the run (0o444, 0o644).
InitModes == {292, 420}

NoFile == [exists |-> FALSE, content |-> Empty, mode |-> 0]
File(c, m) == [exists |-> TRUE, content |-> c, mode |-> m]

VARIABLES
    procs,             \* the runs of main() in progress
    derivedData,       \* whether ~/Library/Developer/Xcode/DerivedData exists
    files,             \* the file at each candidate path
    files0,            \* the files as they were before any run started
    pc,                \* each run's position
    package_file,      \* main: the locator's result
    content,           \* fix_package_swift: the buffer
    original_content,  \* fix_package_swift: the content read
    buf,               \* f.read(): the bytes of the file read so far
    bufsize,           \* f.read(): the size of its buffer
    result,            \* fix_package_swift: the value returned
    err,               \* the step whose filesystem error ended the run
    ops,               \* the file operations each run has completed
    out                \* the lines each run has printed

vars == << procs, derivedData, files, files0, pc, package_file, content,
           original_content, buf, bufsize, result, err, ops, out >>

Matches == IF derivedData THEN { f \in Paths : files[f].exists } ELSE {}

\* FindOutcomes without the emptiness test on the matches.
FindOutcomesUnchecked(dd, ms) == IF ms = {} THEN Paths ELSE ms

\* find_package_file: None when the base directory is missing or the glob
\* matches nothing, else matches[0]. glob.glob returns the matches in
\* directory order, so any match can be the first. derived_data.exists()
\* raises when the directory cannot be looked up (a parent that may not be
\* searched), whether it is there or not.
FindOutcomes(dd, ms) ==
    {Raised} \cup (IF ~dd THEN {None}
                   ELSE IF ms = {} THEN {None} ELSE ms)

\* NextStep without the comparison: the file is rewritten in any case.
NextStepAlwaysWrite(step, changed) ==
    CASE step = "read" -> "substitute"
      [] step = "substitute" -> "chmod"
      [] step = "chmod" -> "open"
      [] step = "open" -> "write"
      [] step = "write" -> "return_true"

\* NextStep without the chmod.
NextStepNoChmod(step, changed) ==
    CASE step = "read" -> "substitute"
      [] step = "substitute" -> IF changed THEN "open" ELSE "return_false"
      [] step = "chmod" -> "open"
      [] step = "open" -> "write"
      [] step = "write" -> "return_true"

\* NextStep with the file opened for writing before the chmod.
NextStepOpenFirst(step, changed) ==
    CASE step = "read" -> "substitute"
      [] step = "substitute" -> IF changed THEN "open" ELSE "return_false"
      [] step = "open" -> "chmod"
      [] step = "chmod" -> "write"
      [] step = "write" -> "return_true"

\* The step that follows each step of fix_package_swift; changed is
\* content != original_content.
NextStep(step, changed) ==
    CASE step = "read" -> "substitute"
      [] step = "substitute" -> IF changed THEN "chmod" ELSE "return_false"
      [] step = "chmod" -> "open"
      [] step = "open" -> "write"
      [] step = "write" -> "return_true"

\* WriteOffset for a file opened with "a": every write goes to the end.
WriteOffsetAppend(old) == Len(old)

\* The offset in the file at which a run that has opened it with "w" writes:
\* its own, which starts at 0 whatever the file holds by then.
WriteOffset(old) == 0

\* The bytes old of a file after the bytes data are written at offset
\* off <= Len(old).
WriteAt(old, off, data) ==
    SubSeq(old, 1, off) \o data \o SubSeq(old, off + Len(data) + 1, Len(old))

\* f.read() reads the whole file through FileIO.readall: a buffer of one
\* byte more than the size of the file when that is known and positive,
\* of SmallChunk bytes otherwise, enlarged when it is full.
SmallChunk == 8192

InitialBufferSize(size) == IF size > 0 THEN size + 1 ELSE SmallChunk

LargeBufferCutoff == 65536

\* new_buffersize: the buffer grows by 256 + n, by n >> 3 above the cutoff,
\* and by SmallChunk at least.
NewBufferSize(n) ==
    LET addend == IF n > LargeBufferCutoff THEN n \div 8 ELSE 256 + n
    IN  n + (IF addend < SmallChunk THEN SmallChunk ELSE addend)

\* What read() returns at offset off of the bytes c when asked for n
\* bytes: what there is, nothing at or past the end.
ReadAt(c, off, n) ==
    SubSeq(c, off + 1, IF off + n < Len(c) THEN off + n ELSE Len(c))

\* What a failed write can have put in the truncated file: the first k
\* bytes of the text, for any k; all of them when it is the close of the
\* file that fails.
FailedWrites(bytes) == { SubSeq(bytes, 1, k) : k \in 0..Len(bytes) }

\* open(file_path, "r") reads in text mode with universal newlines: each
\* "\r\n" and each remaining "\r" of the decoded text is read as "\n". (The
\* file opened with "w" writes "\n" as it is where the script runs.)
RECURSIVE UniversalNewlines(_)
UniversalNewlines(c) ==
    LET crs == { j \in 1..Len(c) : CharAt(c, j) = "\r" }
    IN  IF crs = {} THEN c
        ELSE LET i == MinOf(crs)
                 after == IF CharAt(c, i + 1) = "\n" THEN i + 2 ELSE i + 1
             IN  Before(c, i) \o Newline \o UniversalNewlines(From(c, after))

InitRun(P) ==
    /\ procs = P
    /\ pc = [p \in P |-> "find"]
    /\ package_file = [p \in P |-> None]
    /\ content = [p \in P |-> Empty]
    /\ original_content = [p \in P |-> Empty]
    /\ buf = [p \in P |-> Empty]
    /\ bufsize = [p \in P |-> 0]
    /\ result = [p \in P |-> None]
    /\ err = [p \in P |-> None]
    /\ ops = [p \in P |-> << >>]
    /\ out = [p \in P |-> << >>]

\* The file systems a run can start in.
InitFiles(inputs, modes) ==
    \/ /\ derivedData \in BOOLEAN
       /\ files = [f \in Paths |-> NoFile]
    \/ /\ derivedData = TRUE
       /\ \E c \in inputs, m \in modes :
            files = [f \in Paths |->
                       IF f = "DerivedData/A/Package.swift" THEN File(Encode(c), m) ELSE NoFile]

InitBoth ==
    /\ derivedData = TRUE
    /\ \E c1 \in SmallInputs, c2 \in SmallInputs, m1 \in InitModes, m2 \in InitModes :
         files = [f \in Paths |->
                    IF f = "DerivedData/A/Package.swift" THEN File(Encode(c1), m1)
                    ELSE File(Encode(c2), m2)]

Init ==
    /\ InitRun({1})
    /\ \/ InitFiles(AllInputs, {292})
       \/ InitFiles(SmallInputs, InitModes)
       \/ InitBoth
    /\ files0 = files

InitRace ==
    /\ InitRun({1, 2})
    /\ InitFiles(SmallInputs, {292})
    /\ files0 = files

Goto(p, step) == pc' = [pc EXCEPT ![p] = step]

Fail(p, step) ==
    /\ pc' = [pc EXCEPT ![p] = "error"]
    /\ err' = [err EXCEPT ![p] = step]

Did(p, op) == ops' = [ops EXCEPT ![p] = Append(@, op)]

\* main: package_file = find_package_file(); an error it raises is not
\* caught
FindPackageFile(p) ==
    /\ pc[p] = "find"
    /\ \E r \in FindOutcomes(derivedData, Matches) :
         IF r = Raised
         THEN /\ package_file' = package_file
              /\ Fail(p, "find")
         ELSE /\ package_file' = [package_file EXCEPT ![p] = r]
              /\ Goto(p, IF r = None THEN "print_not_found" ELSE "print_found")
              /\ err' = err
    /\ UNCHANGED << procs, derivedData, files, files0, content, original_content,
                    buf, bufsize, result, ops, out >>

\* main: the two not-found lines, then return
PrintNotFound(p) ==
    /\ pc[p] = "print_not_found"
    /\ out' = [out EXCEPT ![p] = @ \o << "not found", "resolve packages first" >>]
    /\ Goto(p, "done")
    /\ UNCHANGED << procs, derivedData, files, files0, package_file, content,
                    original_content, result, err, ops,
                    buf, bufsize >>

\* main: print(f"Found Package.swift at: {package_file}")
PrintFound(p) ==
    /\ pc[p] = "print_found"
    /\ out' = [out EXCEPT ![p] = Append(@, "found at")]
    /\ Goto(p, "read")
    /\ UNCHANGED << procs, derivedData, files, files0, package_file, content,
                    original_content, result, err, ops,
                    buf, bufsize >>

\* fix_package_swift: open(file_path, "r") and the start of f.read(), which
\* sizes its buffer from the size of the file
ReadStat(p) ==
    /\ pc[p] = "read"
    /\ files[package_file[p]].exists
    /\ buf' = [buf EXCEPT ![p] = Empty]
    /\ bufsize' = [bufsize EXCEPT ![p] = InitialBufferSize(Len(files[package_file[p]].content))]
    /\ Goto(p, "read_chunk")
    /\ UNCHANGED << procs, derivedData, files, files0, package_file, content,
                    original_content, result, err, ops, out >>

\* f.read(): one read() call that returns bytes, taken from the file as it
\* is now at the offset the run has reached
ReadChunk(p) ==
    /\ pc[p] = "read_chunk"
    /\ LET size == IF Len(buf[p]) >= bufsize[p]
                   THEN NewBufferSize(Len(buf[p])) ELSE bufsize[p]
           data == ReadAt(files[package_file[p]].content, Len(buf[p]),
                          size - Len(buf[p]))
       IN  /\ data # Empty
           /\ buf' = [buf EXCEPT ![p] = @ \o data]
           /\ bufsize' = [bufsize EXCEPT ![p] = size]
    /\ UNCHANGED << procs, derivedData, files, files0, pc, package_file, content,
                    original_content, result, err, ops, out >>

\* f.read(): the read() call that returns nothing ends it, and the bytes
\* read are decoded; content = f.read(); original_content = content
ReadFile(p) ==
    /\ pc[p] = "read_chunk"
    /\ ReadAt(files[package_file[p]].content, Len(buf[p]), 1) = Empty
    /\ Decodable(buf[p])
    /\ content' = [content EXCEPT ![p] = UniversalNewlines(Decode(buf[p]))]
    /\ original_content' =
           [original_content EXCEPT ![p] = UniversalNewlines(Decode(buf[p]))]
    /\ Did(p, "read")
    /\ Goto(p, NextStep("read", FALSE))
    /\ UNCHANGED << procs, derivedData, files, files0, package_file, buf, bufsize,
                    result, err, out >>

\* fix_package_swift: open(file_path, "r") or f.read() raises (the file
\* cannot be opened or read, or its bytes are not UTF-8)
ReadError(p) ==
    /\ pc[p] \in {"read", "read_chunk"}
    /\ Fail(p, "read")
    /\ UNCHANGED << procs, derivedData, files, files0, package_file, content,
                    original_content, buf, bufsize, result, ops, out >>

\* fix_package_swift: the twelve substitutions and the comparison
Substitute(p) ==
    /\ pc[p] = "substitute"
    /\ LET new == Transform(content[p])
       IN  /\ content' = [content EXCEPT ![p] = new]
           /\ IF NextStep("substitute", new # original_content[p]) = "return_false"
              THEN /\ result' = [result EXCEPT ![p] = "False"]
                   /\ Goto(p, "print_status")
              ELSE /\ result' = result
                   /\ Goto(p, NextStep("substitute", new # original_content[p]))
    /\ UNCHANGED << procs, derivedData, files, files0, package_file,
                    original_content, err, ops, out,
                    buf, bufsize >>

\* One of chmod / open / write, in the order NextStep gives; the last of
\* them returns True.
Advance(p, step) ==
    IF NextStep(step, TRUE) = "return_true"
    THEN /\ result' = [result EXCEPT ![p] = "True"]
         /\ Goto(p, "print_status")
    ELSE /\ result' = result
         /\ Goto(p, NextStep(step, TRUE))

\* fix_package_swift: os.chmod(file_path, 0o644)
Chmod(p) ==
    /\ pc[p] = "chmod"
    /\ files[package_file[p]].exists
    /\ files' = [files EXCEPT ![package_file[p]].mode = WritableMode]
    /\ Did(p, "chmod")
    /\ Advance(p, "chmod")
    /\ UNCHANGED << procs, derivedData, files0, package_file, content,
                    original_content, err, out,
                    buf, bufsize >>

ChmodError(p) ==
    /\ pc[p] = "chmod"
    /\ Fail(p, "chmod")
    /\ UNCHANGED << procs, derivedData, files, files0, package_file, content,
                    original_content, result, ops, out,
                    buf, bufsize >>

\* fix_package_swift: open(file_path, "w") truncates the file
OpenForWrite(p) ==
    /\ pc[p] = "open"
    /\ files' = [files EXCEPT ![package_file[p]] =
                    IF @.exists THEN [@ EXCEPT !.content = Empty]
                    ELSE File(Empty, WritableMode)]
    /\ Did(p, "open")
    /\ Advance(p, "open")
    /\ UNCHANGED << procs, derivedData, files0, package_file, content,
                    original_content, err, out,
                    buf, bufsize >>

OpenError(p) ==
    /\ pc[p] = "open"
    /\ Fail(p, "open")
    /\ UNCHANGED << procs, derivedData, files, files0, package_file, content,
                    original_content, result, ops, out,
                    buf, bufsize >>

\* fix_package_swift: f.write(content), flushed when the with block closes
\* the file; the run's own offset starts at 0.
WriteContent(p) ==
    /\ pc[p] = "write"
    /\ files' = [files EXCEPT ![package_file[p]].content =
                    WriteAt(@, WriteOffset(@), Encode(content[p]))]
    /\ Did(p, "write")
    /\ Advance(p, "write")
    /\ UNCHANGED << procs, derivedData, files0, package_file, content,
                    original_content, err, out,
                    buf, bufsize >>

\* fix_package_swift: f.write(content) or the close of the file raises
WriteError(p) ==
    /\ pc[p] = "write"
    /\ \E part \in FailedWrites(Encode(content[p])) :
         files' = [files EXCEPT ![package_file[p]].content =
                     WriteAt(@, WriteOffset(@), part)]
    /\ Fail(p, "write")
    /\ UNCHANGED << procs, derivedData, files0, package_file, content,
                    original_content, result, ops, out,
                    buf, bufsize >>

\* main: one of the two status lines
PrintStatus(p) ==
    /\ pc[p] = "print_status"
    /\ out' = [out EXCEPT ![p] =
                  Append(@, IF result[p] = "True" THEN "fixed" ELSE "already fixed")]
    /\ Goto(p, "done")
    /\ UNCHANGED << procs, derivedData, files, files0, package_file, content,
                    original_content, result, err, ops,
                    buf, bufsize >>

\* Any step of run p.
Step(p) ==
    \/ FindPackageFile(p)
    \/ PrintNotFound(p)
    \/ PrintFound(p)
    \/ ReadStat(p)
    \/ ReadChunk(p)
    \/ ReadFile(p)
    \/ ReadError(p)
    \/ Substitute(p)
    \/ Chmod(p)
    \/ ChmodError(p)
    \/ OpenForWrite(p)
    \/ OpenError(p)
    \/ WriteContent(p)
    \/ WriteError(p)
    \/ PrintStatus(p)

Next ==
    \/ \E p \in procs : FindPackageFile(p)
    \/ \E p \in procs : PrintNotFound(p)
    \/ \E p \in procs : PrintFound(p)
    \/ \E p \in procs : ReadStat(p)
    \/ \E p \in procs : ReadChunk(p)
    \/ \E p \in procs : ReadFile(p)
    \/ \E p \in procs : ReadError(p)
    \/ \E p \in procs : Substitute(p)
    \/ \E p \in procs : Chmod(p)
    \/ \E p \in procs : ChmodError(p)
    \/ \E p \in procs : OpenForWrite(p)
    \/ \E p \in procs : OpenError(p)
    \/ \E p \in procs : WriteContent(p)
    \/ \E p \in procs : WriteError(p)
    \/ \E p \in procs : PrintStatus(p)

\* One run of main().
Spec == Init /\ [][Next]_vars

\* Two runs of main() started on the same file system.
SpecRace == InitRace /\ [][Next]_vars

(***************************************************************************)
(* Vocabulary of the properties                                            *)
(***************************************************************************)

TheFile(p) == files[package_file[p]]

\* Run p has just applied the substitutions and compared the buffers.
AfterSubstitute(p) ==
    \/ pc[p] = "chmod"
    \/ pc[p] = "print_status" /\ result[p] = "False"

\* Run p has applied the substitutions.
Substituted(p) ==
    /\ package_file[p] # None
    /\ \/ pc[p] \in {"chmod", "open", "write", "print_status", "done"}
       \/ pc[p] = "error" /\ err[p] \in {"chmod", "open", "write"}

Contains(c, lit) == \E i \in 1..Len(c) : StartsWithAt(c, i, lit)

IsWsRun(s) == \A k \in 1..Len(s) : CharAt(s, k) \in WhitespaceChars
HasNoQuote(s) == \A k \in 1..Len(s) : CharAt(s, k) # Quote

IdentifierChars ==
    { "A", "B", "C", "D", "E", "F", "G", "H", "I", "J", "K", "L", "M",
      "N", "O", "P", "Q", "R", "S", "T", "U", "V", "W", "X", "Y", "Z",
      "a", "b", "c", "d", "e", "f", "g", "h", "i", "j", "k", "l", "m",
      "n", "o", "p", "q", "r", "s", "t", "u", "v", "w", "x", "y", "z",
      "0", "1", "2", "3", "4", "5", "6", "7", "8", "9", "-", "_" }

IsIdentifier(s) == Len(s) > 0 /\ \A k \in 1..Len(s) : CharAt(s, k) \in IdentifierChars

\* The lengths n for which c[j .. j + n - 1] satisfies Ok.
RunLengths(c, j, Ok(_)) == { n \in 0..(Len(c) - j + 1) : Ok(SubSeq(c, j, j + n - 1)) }

NewIdOf(id) == LET k == CHOOSE k \in 1..Len(Renames) : Renames[k][1] = id IN Renames[k][2]

\* Every way of reading c[i..] as a two-argument declaration
\*   .package( w1 name: wn "X" wc , w2 url:
\* with w1, wn, wc, w2 runs of whitespace and X free of double quotes:
\* the name X, the whitespace around the name argument, and the index just
\* after "url:".
DeclarationsAt(c, i) ==
    IF ~StartsWithAt(c, i, DeclOpen) THEN {}
    ELSE UNION {
      LET j == i + Len(DeclOpen) + a IN
      IF ~StartsWithAt(c, j, Text("name:")) THEN {}
      ELSE UNION {
        LET q == j + 5 + b IN
        IF CharAt(c, q) # Quote THEN {}
        ELSE UNION {
          LET r == q + 1 + n IN
          IF CharAt(c, r) # Quote THEN {}
          ELSE UNION {
            LET k == r + 1 + d IN
            IF CharAt(c, k) # "," THEN {}
            ELSE { [ name |-> SubSeq(c, q + 1, r - 1),
                     wn |-> SubSeq(c, j + 5, q - 1),
                     wc |-> SubSeq(c, r + 1, k - 1),
                     end |-> k + 1 + e + Len(DeclUrl) ] :
                   e \in { e \in RunLengths(c, k + 1, IsWsRun) :
                             StartsWithAt(c, k + 1 + e, DeclUrl) } }
            : d \in RunLengths(c, r + 1, IsWsRun) }
          : n \in RunLengths(c, q + 1, HasNoQuote) }
        : b \in RunLengths(c, j + 5, IsWsRun) }
      : a \in RunLengths(c, i + Len(DeclOpen), IsWsRun) }

\* Every way of reading c[i..] as .revision("s"): the value s (any text)
\* and the index just after the closing parenthesis.
RevisionPinsAt(c, i) ==
    IF ~StartsWithAt(c, i, RevOpen) THEN {}
    ELSE { [ value |-> SubSeq(c, i + Len(RevOpen), k - 1), end |-> k + Len(RevClose) ] :
           k \in { k \in (i + Len(RevOpen))..Len(c) : StartsWithAt(c, k, RevClose) } }

\* Every way of reading c[i..] as package: "v" with v free of double quotes.
PackageRefsAt(c, i) ==
    IF ~StartsWithAt(c, i, PackageRefOpen) THEN {}
    ELSE { [ id |-> SubSeq(c, i + Len(PackageRefOpen), k - 1), end |-> k + 1 ] :
           k \in { k \in (i + Len(PackageRefOpen))..Len(c) :
                     CharAt(c, k) = Quote /\ HasNoQuote(SubSeq(c, i + Len(PackageRefOpen), k - 1)) } }

\* The buffer the run computes when the declaration stage maps the text
\* c[i .. e - 1] to mid and treats what precedes and follows it on its own.
DeclarationStageGives(c, i, e, mid) ==
    FixReferences(FixRevision(
        FixDeclarations(Before(c, i)) \o mid \o FixDeclarations(From(c, e))))

\* The same for the revision stage.
RevisionStageGives(c, i, e, mid) ==
    FixReferences(
        FixRevision(FixDeclarations(Before(c, i))) \o mid
            \o FixRevision(FixDeclarations(From(c, e))))

\* The same for the whole sequence.
WholeGives(c, i, e, mid) == Transform(Before(c, i)) \o mid \o Transform(From(c, e))

(***************************************************************************)
(* C1 - C4, C10: the substitutions                                         *)
(***************************************************************************)

\* C1: the substitution sequence is idempotent: applied to the buffer a run
\* has produced it changes nothing, so a second run would return False.
C1_Idempotent ==
    \A p \in procs :
        AfterSubstitute(p) => Transform(content[p]) = content[p]

\* C2 as stated: a declaration naming one of the six, with any whitespace
\* between any two of its tokens, is reduced to .package(url: ; one naming
\* anything else is in the final buffer as it was.
C2_AnyWhitespace ==
    \A p \in procs :
        AfterSubstitute(p) =>
            LET o == original_content[p] IN
            \A i \in 1..Len(o) : \A d \in DeclarationsAt(o, i) :
                IF d.name \in DeclNameSet
                THEN content[p] = DeclarationStageGives(o, i, d.end, DeclReplacement)
                ELSE content[p] = WholeGives(o, i, d.end, SubSeq(o, i, d.end - 1))

\* C2 amended: a declaration naming one of the six, with any whitespace
\* after "(" and after the comma, exactly one space after "name:" and
\* nothing before the comma, is reduced to .package(url: by the declaration
\* rules. Every other declaration (one of the six with another spacing
\* around the name, or any other name with any spacing) is left as it is
\* by the declaration rules, and one whose name is an identifier outside
\* the six is in the final buffer as it was.
C2_DeclarationSimplified ==
    \A p \in procs :
        AfterSubstitute(p) =>
            LET o == original_content[p] IN
            \A i \in 1..Len(o) : \A d \in DeclarationsAt(o, i) :
                LET same == SubSeq(o, i, d.end - 1) IN
                IF d.name \in DeclNameSet /\ d.wn = Space /\ d.wc = Empty
                THEN content[p] = DeclarationStageGives(o, i, d.end, DeclReplacement)
                ELSE /\ content[p] = DeclarationStageGives(o, i, d.end, same)
                     /\ (d.name \notin DeclNameSet /\ IsIdentifier(d.name)) =>
                          content[p] = WholeGives(o, i, d.end, same)

\* A run has reduced a declaration of GTMSessionFetcher written over three
\* lines, a newline and an indentation after "(" and after the comma.
C2_Witness ==
    \E p \in procs :
        /\ AfterSubstitute(p)
        /\ original_content[p] =
             Declaration(Text("GTMSessionFetcher"), Text("\n "), Space, Empty, Text("\n "))
                 \o DeclTail
        /\ content[p] = DeclReplacement \o DeclTail

\* C3 as stated: for every s, every occurrence of .revision("s") becomes
\* revision: "s".
C3_EveryRevisionPin ==
    \A p \in procs :
        AfterSubstitute(p) =>
            LET o == original_content[p] IN
            \A i \in 1..Len(o) : \A r \in RevisionPinsAt(o, i) :
                HasNoQuote(r.value) =>
                    content[p] =
                        RevisionStageGives(o, i, r.end, RevisionReplacement(r.value))

\* C3 amended: for every s that is not empty, holds no double quote and
\* does not begin with ")", every occurrence of .revision("s") becomes
\* revision: "s", whatever precedes and follows it, s carried over as it is.
C3_RevisionPinRewritten ==
    \A p \in procs :
        AfterSubstitute(p) =>
            LET o == original_content[p] IN
            \A i \in 1..Len(o) : \A r \in RevisionPinsAt(o, i) :
                (r.value # Empty /\ HasNoQuote(r.value) /\ CharAt(r.value, 1) # ")") =>
                    content[p] =
                        RevisionStageGives(o, i, r.end, RevisionReplacement(r.value))

\* A run has rewritten two pins of one buffer, one of them with a value of
\* special characters.
C3_Witness ==
    \E p \in procs :
        /\ AfterSubstitute(p)
        /\ original_content[p] = RevisionPin(Text("9f3a")) \o RevisionPin(Text("a\\1$&.*\n"))
        /\ content[p] =
             RevisionReplacement(Text("9f3a")) \o RevisionReplacement(Text("a\\1$&.*\n"))

\* C4 as stated: every occurrence of package: "<old>" becomes
\* package: "<new>" for the five pairs, and an occurrence of package: "<v>"
\* for any other v is left as it is.
C4_AnyOtherValue ==
    \A p \in procs :
        AfterSubstitute(p) =>
            LET o == original_content[p] IN
            \A i \in 1..Len(o) : \A r \in PackageRefsAt(o, i) :
                content[p] =
                    WholeGives(o, i, r.end,
                               PackageRef(IF r.id \in OldIds THEN NewIdOf(r.id) ELSE r.id))

\* C4 amended: every occurrence of package: "<old>" becomes package: "<new>"
\* for the five pairs, whatever precedes and follows it, and an occurrence
\* of package: "<v>" for any other identifier v (letters, digits, "-", "_")
\* is left as it is.
C4_ReferencesRenamed ==
    \A p \in procs :
        AfterSubstitute(p) =>
            LET o == original_content[p] IN
            \A i \in 1..Len(o) : \A r \in PackageRefsAt(o, i) :
                IF r.id \in OldIds
                THEN content[p] = WholeGives(o, i, r.end, PackageRef(NewIdOf(r.id)))
                ELSE IsIdentifier(r.id) =>
                        content[p] = WholeGives(o, i, r.end, PackageRef(r.id))

\* A run has renamed both references to AppCheck around a reference to
\* OCMock, which it kept.
C4_Witness ==
    \E p \in procs :
        /\ AfterSubstitute(p)
        /\ original_content[p] =
             PackageRef(Text("AppCheck")) \o PackageRef(Text("OCMock"))
                 \o PackageRef(Text("AppCheck"))
        /\ content[p] =
             PackageRef(Text("app-check")) \o PackageRef(Text("OCMock"))
                 \o PackageRef(Text("app-check"))

\* C10: the buffer a run produces holds no package: "<old>" for any of the
\* five old identifiers.
C10_NoOldReferenceLeft ==
    \A p \in procs :
        AfterSubstitute(p) =>
            \A id \in OldIds : ~Contains(content[p], PackageRef(id))

\* A run has produced its buffer from a text that held no old reference
\* until the revision rule created one.
C10_Witness ==
    \E p \in procs :
        /\ AfterSubstitute(p)
        /\ \A id \in OldIds : ~Contains(original_content[p], PackageRef(id))
        /\ \E id \in OldIds :
             Contains(FixRevision(FixDeclarations(original_content[p])), PackageRef(id))
        /\ \A id \in OldIds : ~Contains(content[p], PackageRef(id))

(***************************************************************************)
(* C5 - C8: one run and the file system                                    *)
(***************************************************************************)

\* C5: when the transformed buffer equals the content read, the run returns
\* False and has done nothing to any file but read it: no chmod, no write,
\* content and permission bits as they were.
C5_UnchangedLeavesFile ==
    \A p \in procs :
        (Substituted(p) /\ content[p] = original_content[p]) =>
            /\ result[p] = "False"
            /\ pc[p] \in {"print_status", "done"}
            /\ ops[p] = << "read" >>
            /\ files = files0

\* A run has finished on a file that holds none of the patterns.
C5_Witness ==
    \E p \in procs :
        /\ pc[p] = "done"
        /\ original_content[p] = Text("// swift-tools-version:5.3\n")
        /\ content[p] = original_content[p]
        /\ result[p] = "False"
        /\ TheFile(p).mode = 292

\* C6: when the transformed buffer differs from the content read, the run
\* sets the mode to 0o644 before it opens the file for writing, and once it
\* has returned the file holds exactly the transformed buffer and the value
\* returned is True.
C6_ChmodThenOverwrite ==
    \A p \in procs :
        (Substituted(p) /\ content[p] # original_content[p]) =>
            /\ pc[p] = "chmod" => ops[p] = << "read" >> /\ files = files0
            /\ pc[p] = "open" =>
                 /\ ops[p] = << "read", "chmod" >>
                 /\ TheFile(p) = File(files0[package_file[p]].content, WritableMode)
            /\ pc[p] = "write" =>
                 /\ ops[p] = << "read", "chmod", "open" >>
                 /\ TheFile(p) = File(Empty, WritableMode)
            /\ pc[p] \in {"print_status", "done"} =>
                 /\ ops[p] = << "read", "chmod", "open", "write" >>
                 /\ TheFile(p) = File(Encode(content[p]), WritableMode)
                 /\ result[p] = "True"

\* A run has replaced a longer read-only file by the shorter buffer.
C6_Witness ==
    \E p \in procs :
        /\ pc[p] = "done"
        /\ result[p] = "True"
        /\ files0[package_file[p]].mode = 292
        /\ Len(content[p]) < Len(original_content[p])
        /\ TheFile(p) = File(Encode(content[p]), WritableMode)

\* C7: a filesystem error in the read, the chmod or the write ends the run
\* there: no later step, no value returned, no status line; after a failed
\* read or chmod the content of every file is what it was.
C7_ErrorEndsRun ==
    \A p \in procs :
        (pc[p] = "error" /\ err[p] # "find") =>
            /\ ~ENABLED Step(p)
            /\ result[p] = None
            /\ out[p] = << "found at" >>
            /\ ops[p] = CASE err[p] = "read" -> << >>
                          [] err[p] = "chmod" -> << "read" >>
                          [] err[p] = "open" -> << "read", "chmod" >>
                          [] err[p] = "write" -> << "read", "chmod", "open" >>
            /\ err[p] \in {"read", "chmod"} =>
                 \A f \in Paths : files[f].content = files0[f].content

\* A run has failed in the write and left the file truncated.
C7_Witness ==
    \E p \in procs :
        /\ pc[p] = "error"
        /\ err[p] = "write"
        /\ files0[package_file[p]].content # Empty
        /\ TheFile(p).content = Empty

\* C8 as stated: when the base directory is missing or the glob matches
\* nothing, the locator returns None, no error ends the run, no file is
\* read, chmod-ed or written, and the run ends after the two not-found
\* lines.
C8_NotFoundIsBenign ==
    \A p \in procs :
        (~derivedData \/ \A f \in Paths : ~files0[f].exists) =>
            /\ pc[p] \in {"find", "print_not_found", "done"}
            /\ package_file[p] = None
            /\ err[p] = None
            /\ ops[p] = << >>
            /\ files = files0
            /\ pc[p] = "done" => out[p] = << "not found", "resolve packages first" >>

\* C8 amended: when the base directory is missing or the glob matches
\* nothing, the locator either returns None, and the run ends normally
\* after the two not-found lines, or raises because the base directory
\* cannot be looked up, and the run ends there with nothing printed; either
\* way no file is read, chmod-ed or written.
C8_NotFoundOrLookupError ==
    \A p \in procs :
        (~derivedData \/ \A f \in Paths : ~files0[f].exists) =>
            /\ pc[p] \in {"find", "print_not_found", "done", "error"}
            /\ package_file[p] = None
            /\ ops[p] = << >>
            /\ files = files0
            /\ pc[p] = "error" =>
                 /\ err[p] = "find"
                 /\ out[p] = << >>
                 /\ ~ENABLED Step(p)
            /\ pc[p] # "error" => err[p] = None
            /\ pc[p] = "done" => out[p] = << "not found", "resolve packages first" >>

\* A run has ended normally without the base directory.
C8_Witness ==
    \E p \in procs :
        /\ ~derivedData
        /\ pc[p] = "done"
        /\ out[p] = << "not found", "resolve packages first" >>

(***************************************************************************)
(* C9: two runs on one file                                                *)
(***************************************************************************)

\* C9: the runs do not wait for each other, and what two runs leave depends
\* on what each has read. When both have finished without error and each
\* has read the file as it was before the runs, the file is what one run
\* produces from it (untouched when that is the content read); any other
\* outcome (the witness) takes a run that has read the file while the other
\* was changing it.
C9_SameReadSameOutput ==
    (\A p \in procs : pc[p] = "done" /\ err[p] = None /\ package_file[p] # None) =>
        \A f \in Paths :
            LET readers == { p \in procs : package_file[p] = f }
                x == UniversalNewlines(Decode(files0[f].content))
                once == Transform(x)
            IN  (readers # {} /\ \A p \in readers : original_content[p] = x) =>
                    files[f].content =
                        IF once = x THEN files0[f].content ELSE Encode(once)

\* Both runs have finished without error on a file whose rewrite is
\* idempotent, and the file is not what one run produces from the original
\* content: a run has read past the end it first saw, into what the other
\* run wrote.
C9_Witness ==
    /\ procs = {1, 2}
    /\ \A p \in procs : pc[p] = "done" /\ err[p] = None /\ package_file[p] # None
    /\ \E f \in Paths :
         /\ files0[f].exists
         /\ LET once == Transform(UniversalNewlines(Decode(files0[f].content)))
            IN  /\ Transform(once) = once
                /\ files[f].content # Encode(once)

====
